---- MODULE Spec2Model ----
(***************************************************************************)
(* Model of PowerUsageCollection (src/main.go, src/internal/zeroconf):     *)
(* the session driver `main`, the consumer goroutine, the entry handler    *)
(* `handleEntry`, and the pure helpers `pickIPv4`, `firmwareVersion` and   *)
(* the response classification of `fetchPower`.                            *)
(*                                                                         *)
(* Go strings are TLA+ strings, net.IP values are tuples of bytes.         *)
(***************************************************************************)
EXTENDS Integers, Sequences, FiniteSets, TLC

(***************************************************************************)
(* Bounds of the model.                                                    *)
(***************************************************************************)
\* entries the discovery provider delivers in one session
MaxEntries == 3
\* longest AddrIPv4 / AddrIPv6 list of an entry given to pickIPv4
MaxAddrs == 2
\* longest Text list of an entry given to firmwareVersion
MaxText == 2

(***************************************************************************)
(* Program constants.                                                      *)
(***************************************************************************)
\* io.LimitReader(resp.Body, 512)
SnippetLimit == 512
\* http.StatusOK
StatusOK == 200
\* net.IPv4len, net.IPv6len
IPv4len == 4
IPv6len == 16

Min(a, b) == IF a < b THEN a ELSE b

(***************************************************************************)
(* strings.* helpers, on TLA+ strings.                                     *)
(***************************************************************************)
Char(s, i) == SubSeq(s, i, i)

Upper == "ABCDEFGHIJKLMNOPQRSTUVWXYZ"
Lower == "abcdefghijklmnopqrstuvwxyz"

\* unicode.ToLower on one ASCII character
LowerChar(c) ==
    IF \E k \in 1..Len(Upper) : Char(Upper, k) = c
    THEN Char(Lower, CHOOSE k \in 1..Len(Upper) : Char(Upper, k) = c)
    ELSE c

RECURSIVE ToLower(_)
ToLower(s) ==
    IF s = "" THEN ""
    ELSE LowerChar(Char(s, 1)) \o ToLower(SubSeq(s, 2, Len(s)))

\* strings.Index(s, c) for a one-character c, 1-based; 0 when absent
RECURSIVE IndexFrom(_, _, _)
IndexFrom(s, c, i) ==
    IF i > Len(s) THEN 0
    ELSE IF Char(s, i) = c THEN i
    ELSE IndexFrom(s, c, i + 1)

\* strings.SplitN(s, sep, 2) for a one-character sep
SplitN2(s, sep) ==
    LET k == IndexFrom(s, sep, 1)
    IN  IF k = 0 THEN <<s>>
        ELSE <<SubSeq(s, 1, k - 1), SubSeq(s, k + 1, Len(s))>>

\* strings.TrimSuffix(s, suffix)
TrimSuffix(s, suffix) ==
    IF Len(s) >= Len(suffix)
       /\ SubSeq(s, Len(s) - Len(suffix) + 1, Len(s)) = suffix
    THEN SubSeq(s, 1, Len(s) - Len(suffix))
    ELSE s

IsSpace(c) == c \in {" ", "\n", "\t", "\r"}

RECURSIVE TrimLeft(_)
TrimLeft(s) ==
    IF s /= "" /\ IsSpace(Char(s, 1)) THEN TrimLeft(SubSeq(s, 2, Len(s))) ELSE s

RECURSIVE TrimRight(_)
TrimRight(s) ==
    IF s /= "" /\ IsSpace(Char(s, Len(s)))
    THEN TrimRight(SubSeq(s, 1, Len(s) - 1))
    ELSE s

\* strings.TrimSpace(s)
TrimSpace(s) == TrimRight(TrimLeft(s))

\* io.ReadAll(io.LimitReader(body, n))
LimitRead(body, n) == SubSeq(body, 1, Min(n, Len(body)))

\* a string of n copies of the character c
RECURSIVE Rep(_, _)
Rep(c, n) ==
    IF n = 0 THEN ""
    ELSE IF n % 2 = 0 THEN LET h == Rep(c, n \div 2) IN h \o h
    ELSE c \o Rep(c, n - 1)

(***************************************************************************)
(* net.IP: a tuple of bytes.  To4 and String as the standard library       *)
(* computes them for the calls at main.go:95, 96 and 101.                  *)
(***************************************************************************)
IsMapped(ip) ==
    /\ Len(ip) = IPv6len
    /\ \A k \in 1..10 : ip[k] = 0
    /\ ip[11] = 255
    /\ ip[12] = 255

\* ip.To4(): the 4-byte form, or <<>> for Go's nil
To4(ip) ==
    IF Len(ip) = IPv4len THEN ip
    ELSE IF IsMapped(ip) THEN SubSeq(ip, 13, 16)
    ELSE <<>>

HexDigits == "0123456789abcdef"

\* lower-case hex without leading zeros (appendHex)
RECURSIVE Hex(_)
Hex(n) ==
    IF n < 16 THEN Char(HexDigits, n + 1)
    ELSE Hex(n \div 16) \o Char(HexDigits, (n % 16) + 1)

\* two hex digits per byte (hexString, for an IP of a wrong length)
RECURSIVE HexString(_)
HexString(ip) ==
    IF ip = <<>> THEN ""
    ELSE Char(HexDigits, (Head(ip) \div 16) + 1)
         \o Char(HexDigits, (Head(ip) % 16) + 1)
         \o HexString(Tail(ip))

Dotted(p4) ==
    ToString(p4[1]) \o "." \o ToString(p4[2]) \o "."
    \o ToString(p4[3]) \o "." \o ToString(p4[4])

\* the i-th 16-bit group of a 16-byte address, i in 1..8
Group(ip, i) == ip[2 * i - 1] * 256 + ip[2 * i]

\* number of consecutive zero groups starting at group i
RECURSIVE ZeroRun(_, _)
ZeroRun(ip, i) ==
    IF i > 8 \/ Group(ip, i) /= 0 THEN 0 ELSE 1 + ZeroRun(ip, i + 1)

\* groups a..b joined by ":"
RECURSIVE JoinGroups(_, _, _)
JoinGroups(ip, a, b) ==
    IF a > b THEN ""
    ELSE IF a = b THEN Hex(Group(ip, a))
    ELSE Hex(Group(ip, a)) \o ":" \o JoinGroups(ip, a + 1, b)

\* the text form of a 16-byte address that is not IPv4-mapped: the first
\* longest run of two or more zero groups is written "::"
String16(ip) ==
    LET best == CHOOSE i \in 1..8 :
                    /\ \A j \in 1..8 : ZeroRun(ip, j) <= ZeroRun(ip, i)
                    /\ \A j \in 1..(i - 1) : ZeroRun(ip, j) < ZeroRun(ip, i)
        n == ZeroRun(ip, best)
    IN  IF n < 2 THEN JoinGroups(ip, 1, 8)
        ELSE JoinGroups(ip, 1, best - 1) \o "::" \o JoinGroups(ip, best + n, 8)

\* ip.String()
IPString(ip) ==
    IF Len(ip) = 0 THEN "<nil>"
    ELSE IF Len(ip) /= IPv4len /\ Len(ip) /= IPv6len THEN "?" \o HexString(ip)
    ELSE IF To4(ip) /= <<>> THEN Dotted(To4(ip))
    ELSE String16(ip)

(***************************************************************************)
(* pickIPv4 (main.go:93-104)                                               *)
(***************************************************************************)
\* the loop over entry.AddrIPv4 from index i: the index at which it returns,
\* 0 when it runs to the end
RECURSIVE pickLoop(_, _)
pickLoop(addrs, i) ==
    IF i > Len(addrs) THEN 0
    ELSE IF To4(addrs[i]) /= <<>> THEN i
    ELSE pickLoop(addrs, i + 1)

\* pickIPv4 with the two address families tried in the other order
pickIPv4_IPv6First(entry) ==
    IF Len(entry.AddrIPv6) > 0
    THEN "[" \o IPString(entry.AddrIPv6[1]) \o "]"
    ELSE LET k == pickLoop(entry.AddrIPv4, 1)
         IN  IF k /= 0 THEN IPString(entry.AddrIPv4[k]) ELSE ""

pickIPv4(entry) ==
    LET k == pickLoop(entry.AddrIPv4, 1)
    IN  IF k /= 0 THEN IPString(entry.AddrIPv4[k])
        ELSE IF Len(entry.AddrIPv6) > 0
        THEN "[" \o IPString(entry.AddrIPv6[1]) \o "]"
        ELSE ""

(***************************************************************************)
(* firmwareVersion (main.go:126-140)                                       *)
(***************************************************************************)
FirmwareKeys == {"fv", "firmware", "firmwareversion", "version"}

\* firmwareLoop without the return inside the loop: a later match overrides
RECURSIVE firmwareLoop_LastWins(_, _)
firmwareLoop_LastWins(text, i) ==
    IF i > Len(text) THEN ""
    ELSE LET parts == SplitN2(text[i], "=")
             rest == firmwareLoop_LastWins(text, i + 1)
         IN  IF Len(parts) = 2 /\ ToLower(parts[1]) \in FirmwareKeys /\ rest = ""
             THEN parts[2]
             ELSE rest

\* the loop over entry.Text, from index i
RECURSIVE firmwareLoop(_, _)
firmwareLoop(text, i) ==
    IF i > Len(text) THEN ""
    ELSE LET parts == SplitN2(text[i], "=")
         IN  IF Len(parts) /= 2 THEN firmwareLoop(text, i + 1)
             ELSE IF ToLower(parts[1]) \in FirmwareKeys THEN parts[2]
             ELSE firmwareLoop(text, i + 1)

firmwareVersion(entry) == firmwareLoop(entry.Text, 1)

(***************************************************************************)
(* fetchPower (main.go:106-124)                                            *)
(*                                                                         *)
(* What the server does is a value `srv`: either no response at all        *)
(* ([ok |-> FALSE, cause]: client.Get returns an error, the 5 s client     *)
(* timeout included) or a response [ok |-> TRUE, StatusCode, Status,       *)
(* Body].  A body is its bytes (raw) and the JSON document they spell      *)
(* (json): kind "syntax" for bytes that are no JSON value, "object" with   *)
(* its members in order, or another JSON value ("null", "array", ...).     *)
(***************************************************************************)
NilInfo == [nil |-> TRUE]
NilErr == [nil |-> TRUE]

\* var info PowerInfo
ZeroInfo ==
    [nil |-> FALSE, DeviceName |-> "", CurrentWatts |-> 0, Timestamp |-> ""]

\* the JSON type each tagged field of PowerInfo accepts (main.go:20-26); a
\* member's key matches a tag whatever its case
FieldType(name) ==
    LET n == ToLower(name)
    IN  CASE n = "devicename" -> "string"
          [] n = "currentwatts" -> "number"
          [] n = "voltage" -> "number"
          [] n = "amperage" -> "number"
          [] n = "timestamp" -> "string"
          [] OTHER -> "ignored"

\* one member of a JSON object stored into info
SetField(info, m) ==
    LET n == ToLower(m.name)
    IN  CASE n = "devicename" -> [info EXCEPT !.DeviceName = m.v]
          [] n = "currentwatts" -> [info EXCEPT !.CurrentWatts = m.v]
          [] n = "timestamp" -> [info EXCEPT !.Timestamp = m.v]
          [] OTHER -> info

\* whether a member cannot be stored into its field (UnmarshalTypeError)
Mismatch(m) ==
    /\ FieldType(m.name) /= "ignored"
    /\ m.t /= "null"
    /\ m.t /= FieldType(m.name)

RECURSIVE DecodeMembers(_, _)
DecodeMembers(members, info) ==
    IF members = <<>> THEN info
    ELSE LET m == Head(members)
         IN  DecodeMembers(Tail(members),
                 IF Mismatch(m) \/ m.t = "null" THEN info ELSE SetField(info, m))

\* json.NewDecoder(resp.Body).Decode(&info): the info left behind and the error
Decode(json, info) ==
    CASE json.kind = "syntax" ->
            [info |-> info,
             err |-> [nil |-> FALSE, from |-> "Decode", msg |-> json.msg]]
      [] json.kind = "null" -> [info |-> info, err |-> NilErr]
      [] json.kind = "object" ->
            [info |-> DecodeMembers(json.members, info),
             err |-> IF \E k \in 1..Len(json.members) : Mismatch(json.members[k])
                     THEN [nil |-> FALSE, from |-> "Decode",
                           msg |-> "json: cannot unmarshal into Go struct field"]
                     ELSE NilErr]
      [] OTHER ->
            [info |-> info,
             err |-> [nil |-> FALSE, from |-> "Decode",
                      msg |-> "json: cannot unmarshal " \o json.kind
                              \o " into Go value of type main.PowerInfo"]]

\* fetchPower returning &info together with the decode error
fetchPower_Partial(url, srv) ==
    IF ~srv.ok
    THEN [info |-> NilInfo,
          err |-> [nil |-> FALSE, from |-> "Get",
                   msg |-> "Get \"" \o url \o "\": " \o srv.cause]]
    ELSE IF srv.StatusCode /= StatusOK
    THEN [info |-> NilInfo,
          err |-> [nil |-> FALSE, from |-> "Errorf",
                   msg |-> "unexpected status " \o srv.Status \o ": "
                           \o TrimSpace(LimitRead(srv.Body.raw, SnippetLimit))]]
    ELSE Decode(srv.Body.json, ZeroInfo)

fetchPower(url, srv) ==
    IF ~srv.ok
    THEN [info |-> NilInfo,
          err |-> [nil |-> FALSE, from |-> "Get",
                   msg |-> "Get \"" \o url \o "\": " \o srv.cause]]
    ELSE IF srv.StatusCode /= StatusOK
    THEN [info |-> NilInfo,
          err |-> [nil |-> FALSE, from |-> "Errorf",
                   msg |-> "unexpected status " \o srv.Status \o ": "
                           \o TrimSpace(LimitRead(srv.Body.raw, SnippetLimit))]]
    ELSE LET d == Decode(srv.Body.json, ZeroInfo)
         IN  IF ~d.err.nil THEN [info |-> NilInfo, err |-> d.err]
             ELSE [info |-> d.info, err |-> NilErr]

(***************************************************************************)
(* Values the environment supplies: addresses, entries, server behaviour.  *)
(***************************************************************************)
IP4 == <<192, 168, 1, 5>>
\* net.ParseIP("10.0.0.7"): the 16-byte IPv4-mapped form
IPMapped == <<0, 0, 0, 0, 0, 0, 0, 0, 0, 0, 255, 255, 10, 0, 0, 7>>
\* net.ParseIP("fe80::1")
IP6 == <<254, 128, 0, 0, 0, 0, 0, 0, 0, 0, 0, 0, 0, 0, 0, 1>>
\* net.ParseIP("2001:db8::1:0:0:1")
IP6b == <<32, 1, 13, 184, 0, 0, 0, 0, 0, 1, 0, 0, 0, 0, 0, 1>>
\* a net.IP of a length that is neither 4 nor 16
IPBad == <<1, 2, 3>>

IPSet == {IP4, IPMapped, IP6, IP6b, IPBad}

TextSet ==
    {"fv=1.0", "FirmwareVersion=1.2.3", "Version=a=b", "other=value",
     "noequal", "=x", "firmware=", "fvx=3", "VERSION"}

SeqsUpTo(S, n) == UNION {[1..k -> S] : k \in 0..n}

\* zeroconf.ServiceEntry (zeroconf.go:9-15)
ServiceEntry(instance, host, text, v4, v6) ==
    [Instance |-> instance, HostName |-> host, Text |-> text,
     AddrIPv4 |-> v4, AddrIPv6 |-> v6]

\* the entries a session's provider may deliver
SessionEntries ==
    {ServiceEntry("Lamp", "lamp.local.", <<"other=value", "fv=1.0">>,
                  <<IPMapped>>, <<IP6>>),
     ServiceEntry("Plug", "plug.local.", <<"noequal">>, <<>>, <<IP6>>),
     ServiceEntry("NoIP Device", "noip.local.", <<>>, <<>>, <<>>)}

Syntax(msg) == [kind |-> "syntax", msg |-> msg]
Member(name, t, v) == [name |-> name, t |-> t, v |-> v]

\* CurrentWatts is held in hundredths of a watt
GoodBody ==
    [raw |-> "{\"deviceName\":\"Lamp\",\"currentWatts\":12.5,\"timestamp\":\"2024-02-02T15:04:05Z\"}",
     json |-> [kind |-> "object",
               members |-> <<Member("deviceName", "string", "Lamp"),
                             Member("currentWatts", "number", 1250),
                             Member("timestamp", "string", "2024-02-02T15:04:05Z")>>]]
NoTimestampBody ==
    [raw |-> "{\"currentWatts\":3,\"extra\":true}",
     json |-> [kind |-> "object",
               members |-> <<Member("currentWatts", "number", 300),
                             Member("extra", "bool", TRUE)>>]]
WrongTypeBody ==
    [raw |-> "{\"deviceName\":\"Lamp\",\"currentWatts\":\"high\"}",
     json |-> [kind |-> "object",
               members |-> <<Member("deviceName", "string", "Lamp"),
                             Member("currentWatts", "string", "high")>>]]
NotJSONBody ==
    [raw |-> "not-json",
     json |-> Syntax("invalid character 'o' in literal null (expecting 'u')")]
OopsBody ==
    [raw |-> "oops\n",
     json |-> Syntax("invalid character 'o' looking for beginning of value")]
\* keys in another case than the tags, and a null
FoldedBody ==
    [raw |-> "{\"CURRENTWATTS\":7,\"TimeStamp\":null}",
     json |-> [kind |-> "object",
               members |-> <<Member("CURRENTWATTS", "number", 700),
                             Member("TimeStamp", "null", "")>>]]
EmptyBody == [raw |-> "", json |-> Syntax("EOF")]
ArrayBody == [raw |-> "[1,2]", json |-> [kind |-> "array"]]
NullBody == [raw |-> "null", json |-> [kind |-> "null"]]
\* bodies longer than the 512 bytes read for the snippet
LongBody ==
    [raw |-> "  " \o Rep("x", SnippetLimit + 88),
     json |-> Syntax("invalid character 'x' looking for beginning of value")]
PadBody ==
    [raw |-> Rep("x", SnippetLimit - 2) \o "  yy",
     json |-> Syntax("invalid character 'x' looking for beginning of value")]

BodySet ==
    {GoodBody, NoTimestampBody, WrongTypeBody, FoldedBody, NotJSONBody, OopsBody,
     EmptyBody, ArrayBody, NullBody, LongBody, PadBody}

StatusSet ==
    {<<200, "200 OK">>, <<201, "201 Created">>, <<204, "204 No Content">>,
     <<404, "404 Not Found">>, <<500, "500 Internal Server Error">>}

Response(st, body) ==
    [ok |-> TRUE, StatusCode |-> st[1], Status |-> st[2], Body |-> body]
NoResponse(cause) == [ok |-> FALSE, cause |-> cause]

ServerSet ==
    {NoResponse("dial tcp: connect: connection refused"),
     NoResponse("context deadline exceeded (Client.Timeout exceeded while awaiting headers)")}
    \cup {Response(st, b) : st \in StatusSet, b \in BodySet}

\* what a device may do with a session's query
SessionServers ==
    {NoResponse("context deadline exceeded (Client.Timeout exceeded while awaiting headers)"),
     Response(<<500, "500 Internal Server Error">>, OopsBody),
     Response(<<200, "200 OK">>, NotJSONBody),
     Response(<<200, "200 OK">>, GoodBody)}

(***************************************************************************)
(* State.                                                                  *)
(***************************************************************************)
VARIABLES
    listOnly,   \* *listOnly, the --list flag
    mainPc,     \* where main is: "NewResolver", "spawn", "Browse", "wait", "exited"
    err,        \* main's err: "nil", "resolver error", "browse error"
    exitCode,   \* the process exit code once mainPc = "exited", -1 before
    ctxDone,    \* ctx.Done() is closed: the 15 s deadline has elapsed
    browsing,   \* resolver.Browse has returned nil: the provider is running
    closed,     \* close(entries) has happened
    consumer,   \* the goroutine of main.go:43-47: "none", "range", "call", "ended"
    delivered,  \* the entries received from the channel, in order
    h,          \* h[i]: the handleEntry invocation for delivered[i]
    out,        \* lines written to stdout
    fetches,    \* URLs requested with client.Get, in order
    inflight,   \* invocations whose Get was in flight when the deadline elapsed
    fcall,      \* a direct call of a pure function: [fn, arg]
    fret        \* <<>> before that call returns, <<result>> after

vars ==
    <<listOnly, mainPc, err, exitCode, ctxDone, browsing, closed, consumer,
      delivered, h, out, fetches, inflight, fcall, fret>>

sessionVars ==
    <<listOnly, mainPc, err, exitCode, ctxDone, browsing, closed, consumer,
      delivered, h, out, fetches, inflight>>

\* the process is alive: main has neither returned nor called os.Exit
Running == mainPc /= "exited"

(***************************************************************************)
(* main (main.go:28-54) and the discovery provider.                        *)
(***************************************************************************)
Init ==
    /\ listOnly \in BOOLEAN
    /\ mainPc = "NewResolver"
    /\ err = "nil"
    /\ exitCode = -1
    /\ ctxDone = FALSE
    /\ browsing = FALSE
    /\ closed = FALSE
    /\ consumer = "none"
    /\ delivered = <<>>
    /\ h = <<>>
    /\ out = <<"Discovering Matter devices via _matter._tcp...">>
    /\ fetches = <<>>
    /\ inflight = {}
    /\ fcall = [fn |-> "none"]
    /\ fret = <<>>

\* os.Exit(code), or main returning (code 0)
Exit(code) ==
    /\ mainPc' = "exited"
    /\ exitCode' = code

\* the deadline also cancelling the request in flight, as it would had the
\* request been built with ctx
Deadline_CancelsFetch ==
    /\ Running
    /\ ~ctxDone
    /\ ctxDone' = TRUE
    /\ inflight' = {i \in 1..Len(h) : h[i].pc = "fetching"}
    /\ h' = [i \in 1..Len(h) |->
                IF h[i].pc = "fetching"
                THEN [h[i] EXCEPT !.pc = "fetched",
                                  !.res = [info |-> [nil |-> TRUE],
                                           err |-> [nil |-> FALSE, from |-> "Get",
                                                    msg |-> "context deadline exceeded"]]]
                ELSE h[i]]
    /\ UNCHANGED <<listOnly, mainPc, err, exitCode, browsing, closed, consumer,
                   delivered, out, fetches, fcall, fret>>

\* the timer of context.WithTimeout(ctx, 15*time.Second) fires
Deadline ==
    /\ Running
    /\ ~ctxDone
    /\ ctxDone' = TRUE
    /\ inflight' = {i \in 1..Len(h) : h[i].pc = "fetching"}
    /\ UNCHANGED <<listOnly, mainPc, err, exitCode, browsing, closed, consumer,
                   delivered, h, out, fetches, fcall, fret>>

\* zeroconf.NewResolver(nil) returns a resolver
NewResolverOk ==
    /\ mainPc = "NewResolver"
    /\ mainPc' = "spawn"
    /\ UNCHANGED <<listOnly, err, exitCode, ctxDone, browsing, closed, consumer,
                   delivered, h, out, fetches, inflight, fcall, fret>>

\* zeroconf.NewResolver(nil) returns an error
NewResolverFail ==
    /\ mainPc = "NewResolver"
    /\ err' = "resolver error"
    /\ Exit(1)
    /\ UNCHANGED <<listOnly, ctxDone, browsing, closed, consumer, delivered, h,
                   out, fetches, inflight, fcall, fret>>

\* entries := make(chan ...); go func() { for entry := range entries ... }()
Spawn ==
    /\ mainPc = "spawn"
    /\ consumer' = "range"
    /\ mainPc' = "Browse"
    /\ UNCHANGED <<listOnly, err, exitCode, ctxDone, browsing, closed, delivered,
                   h, out, fetches, inflight, fcall, fret>>

\* resolver.Browse(ctx, ...) returns nil: the provider runs from now on
BrowseOk ==
    /\ mainPc = "Browse"
    /\ browsing' = TRUE
    /\ mainPc' = "wait"
    /\ UNCHANGED <<listOnly, err, exitCode, ctxDone, closed, consumer, delivered,
                   h, out, fetches, inflight, fcall, fret>>

\* the browse error reported but not fatal
BrowseFail_NotFatal ==
    /\ mainPc = "Browse"
    /\ err' = "browse error"
    /\ mainPc' = "wait"
    /\ UNCHANGED <<listOnly, exitCode, ctxDone, browsing, closed, consumer,
                   delivered, h, out, fetches, inflight, fcall, fret>>

\* resolver.Browse(ctx, ...) returns an error
BrowseFail ==
    /\ mainPc = "Browse"
    /\ err' = "browse error"
    /\ Exit(1)
    /\ UNCHANGED <<listOnly, ctxDone, browsing, closed, consumer, delivered, h,
                   out, fetches, inflight, fcall, fret>>

\* main also waiting for the consumer to finish the closed stream
MainDone_WaitsForStream ==
    /\ mainPc = "wait"
    /\ ctxDone
    /\ closed
    /\ consumer = "ended"
    /\ Exit(0)
    /\ UNCHANGED <<listOnly, err, ctxDone, browsing, closed, consumer, delivered,
                   h, out, fetches, inflight, fcall, fret>>

\* <-ctx.Done() and the return from main
MainDone ==
    /\ mainPc = "wait"
    /\ ctxDone
    /\ Exit(0)
    /\ UNCHANGED <<listOnly, err, ctxDone, browsing, closed, consumer, delivered,
                   h, out, fetches, inflight, fcall, fret>>

\* the provider's goroutine: <-ctx.Done(); close(entries)
ProviderClose ==
    /\ Running
    /\ browsing
    /\ ctxDone
    /\ ~closed
    /\ closed' = TRUE
    /\ UNCHANGED <<listOnly, mainPc, err, exitCode, ctxDone, browsing, consumer,
                   delivered, h, out, fetches, inflight, fcall, fret>>

\* a new handleEntry invocation, before its first statement
NewCall ==
    [pc |-> "begin", host |-> "", addr |-> "", picked |-> FALSE, gets |-> 0,
     res |-> [info |-> NilInfo, err |-> NilErr]]

\* the loop body starting `go handleEntry(...)` and returning to the range
Deliver_Go(e) ==
    /\ Running
    /\ browsing
    /\ ~closed
    /\ consumer = "range"
    /\ Len(delivered) < MaxEntries
    /\ delivered' = Append(delivered, e)
    /\ h' = Append(h, NewCall)
    /\ consumer' = "range"
    /\ UNCHANGED <<listOnly, mainPc, err, exitCode, ctxDone, browsing, closed,
                   out, fetches, inflight, fcall, fret>>

\* the provider sends entry e on the unbuffered channel (the resolver of
\* internal/zeroconf never does, the one main.go imports does until it
\* closes the channel) and the range loop receives it; the loop body calls
\* handleEntry(entry, *listOnly) and does not come back to the range before
\* that call returns
Deliver(e) ==
    /\ Running
    /\ browsing
    /\ ~closed
    /\ consumer = "range"
    /\ Len(delivered) < MaxEntries
    /\ delivered' = Append(delivered, e)
    /\ h' = Append(h, NewCall)
    /\ consumer' = "call"
    /\ UNCHANGED <<listOnly, mainPc, err, exitCode, ctxDone, browsing, closed,
                   out, fetches, inflight, fcall, fret>>

\* the range loop ends on the closed channel
ConsumerEnd ==
    /\ Running
    /\ consumer = "range"
    /\ closed
    /\ consumer' = "ended"
    /\ UNCHANGED <<listOnly, mainPc, err, exitCode, ctxDone, browsing, closed,
                   delivered, h, out, fetches, inflight, fcall, fret>>

(***************************************************************************)
(* handleEntry (main.go:56-91), one action per statement group.            *)
(***************************************************************************)
\* handleEntry returns to the loop body, which goes back to the range
Return == consumer' = IF consumer = "call" THEN "range" ELSE consumer

\* "%.2f" of a value held in hundredths
FormatWatts(cw) ==
    ToString(cw \div 100) \o "." \o ToString((cw % 100) \div 10)
    \o ToString(cw % 10)

HeaderLine(instance, host) ==
    "\nDiscovered: " \o instance \o " (" \o host \o ")"

PowerURL(addr) == "http://" \o addr \o ":80/api/power"

\* lines 57-58: host and addr are computed before anything is printed
HandleBegin(i) ==
    /\ Running
    /\ h[i].pc = "begin"
    /\ h' = [h EXCEPT ![i].pc = "header",
                      ![i].host = TrimSuffix(delivered[i].HostName, "."),
                      ![i].addr = pickIPv4(delivered[i]),
                      ![i].picked = TRUE]
    /\ UNCHANGED <<listOnly, mainPc, err, exitCode, ctxDone, browsing, closed,
                   consumer, delivered, out, fetches, inflight, fcall, fret>>

\* line 60
PrintHeader(i) ==
    /\ Running
    /\ h[i].pc = "header"
    /\ out' = Append(out, HeaderLine(delivered[i].Instance, h[i].host))
    /\ h' = [h EXCEPT ![i].pc = "branch"]
    /\ UNCHANGED <<listOnly, mainPc, err, exitCode, ctxDone, browsing, closed,
                   consumer, delivered, fetches, inflight, fcall, fret>>

\* lines 61-70
ListBranch(i) ==
    /\ Running
    /\ h[i].pc = "branch"
    /\ listOnly
    /\ LET v == firmwareVersion(delivered[i])
           fw == IF v = "" THEN "unknown" ELSE v
       IN  out' = out \o <<"  Name: " \o delivered[i].Instance,
                           "  Firmware: " \o fw>>
    /\ h' = [h EXCEPT ![i].pc = "done"]
    /\ Return
    /\ UNCHANGED <<listOnly, mainPc, err, exitCode, ctxDone, browsing, closed,
                   delivered, fetches, inflight, fcall, fret>>

\* lines 72-75
NoAddr(i) ==
    /\ Running
    /\ h[i].pc = "branch"
    /\ ~listOnly
    /\ h[i].addr = ""
    /\ out' = Append(out, "  No IPv4 address available; skipping power query.")
    /\ h' = [h EXCEPT ![i].pc = "done"]
    /\ Return
    /\ UNCHANGED <<listOnly, mainPc, err, exitCode, ctxDone, browsing, closed,
                   delivered, fetches, inflight, fcall, fret>>

\* the query started whatever the mode
StartQuery_IgnoresList(i) ==
    /\ Running
    /\ h[i].pc = "branch"
    /\ h[i].addr /= ""
    /\ out' = Append(out, "  Querying: " \o PowerURL(h[i].addr))
    /\ fetches' = Append(fetches, PowerURL(h[i].addr))
    /\ h' = [h EXCEPT ![i].pc = "fetching", ![i].gets = @ + 1]
    /\ UNCHANGED <<listOnly, mainPc, err, exitCode, ctxDone, browsing, closed,
                   consumer, delivered, inflight, fcall, fret>>

\* lines 77-80 and 107-108: the URL is printed and client.Get is issued
StartQuery(i) ==
    /\ Running
    /\ h[i].pc = "branch"
    /\ ~listOnly
    /\ h[i].addr /= ""
    /\ out' = Append(out, "  Querying: " \o PowerURL(h[i].addr))
    /\ fetches' = Append(fetches, PowerURL(h[i].addr))
    /\ h' = [h EXCEPT ![i].pc = "fetching", ![i].gets = @ + 1]
    /\ UNCHANGED <<listOnly, mainPc, err, exitCode, ctxDone, browsing, closed,
                   consumer, delivered, inflight, fcall, fret>>

\* lines 108-124: the device answers (or the 5 s client timeout passes) and
\* fetchPower returns
FetchReturn(i) ==
    /\ Running
    /\ h[i].pc = "fetching"
    /\ \E srv \in SessionServers :
         h' = [h EXCEPT ![i].pc = "fetched",
                        ![i].res = fetchPower(PowerURL(h[i].addr), srv)]
    /\ UNCHANGED <<listOnly, mainPc, err, exitCode, ctxDone, browsing, closed,
                   consumer, delivered, out, fetches, inflight, fcall, fret>>

\* a failed fetch ending the consumer goroutine instead of returning
PrintResult_Fatal(i) ==
    /\ Running
    /\ h[i].pc = "fetched"
    /\ LET r == h[i].res
       IN  out' = Append(out,
               IF ~r.err.nil THEN "  Power query failed: " \o r.err.msg
               ELSE "  Current power: " \o FormatWatts(r.info.CurrentWatts) \o " W"
                    \o (IF r.info.Timestamp /= ""
                        THEN " (timestamp: " \o r.info.Timestamp \o ")"
                        ELSE ""))
    /\ h' = [h EXCEPT ![i].pc = "done"]
    /\ consumer' = IF ~h[i].res.err.nil THEN "ended"
                   ELSE IF consumer = "call" THEN "range" ELSE consumer
    /\ UNCHANGED <<listOnly, mainPc, err, exitCode, ctxDone, browsing, closed,
                   delivered, fetches, inflight, fcall, fret>>

\* a failed fetch tried again
PrintResult_Retry(i) ==
    /\ Running
    /\ h[i].pc = "fetched"
    /\ LET r == h[i].res
       IN  out' = Append(out,
               IF ~r.err.nil THEN "  Power query failed: " \o r.err.msg
               ELSE "  Current power: " \o FormatWatts(r.info.CurrentWatts) \o " W"
                    \o (IF r.info.Timestamp /= ""
                        THEN " (timestamp: " \o r.info.Timestamp \o ")"
                        ELSE ""))
    /\ IF ~h[i].res.err.nil /\ h[i].gets < 2
       THEN h' = [h EXCEPT ![i].pc = "branch"] /\ UNCHANGED consumer
       ELSE h' = [h EXCEPT ![i].pc = "done"] /\ Return
    /\ UNCHANGED <<listOnly, mainPc, err, exitCode, ctxDone, browsing, closed,
                   delivered, fetches, inflight, fcall, fret>>

\* lines 81-91
PrintResult(i) ==
    /\ Running
    /\ h[i].pc = "fetched"
    /\ LET r == h[i].res
       IN  out' = Append(out,
               IF ~r.err.nil THEN "  Power query failed: " \o r.err.msg
               ELSE "  Current power: " \o FormatWatts(r.info.CurrentWatts) \o " W"
                    \o (IF r.info.Timestamp /= ""
                        THEN " (timestamp: " \o r.info.Timestamp \o ")"
                        ELSE ""))
    /\ h' = [h EXCEPT ![i].pc = "done"]
    /\ Return
    /\ UNCHANGED <<listOnly, mainPc, err, exitCode, ctxDone, browsing, closed,
                   delivered, fetches, inflight, fcall, fret>>

MainStep ==
    \/ NewResolverOk
    \/ NewResolverFail
    \/ Spawn
    \/ BrowseOk
    \/ BrowseFail
    \/ MainDone

Next ==
    \/ MainStep
    \/ Deadline
    \/ ProviderClose
    \/ ConsumerEnd
    \/ \E e \in SessionEntries : Deliver(e)
    \/ \E i \in 1..Len(h) :
         \/ HandleBegin(i)
         \/ PrintHeader(i)
         \/ ListBranch(i)
         \/ NoAddr(i)
         \/ StartQuery(i)
         \/ FetchReturn(i)
         \/ PrintResult(i)

Spec == Init /\ [][Next]_vars

\* the main goroutine keeps running and the deadline timer fires
FairSpec == Spec /\ WF_vars(MainStep) /\ WF_vars(Deadline)

(***************************************************************************)
(* The pure functions called directly, as the tests of main_test.go do:    *)
(* the arguments are drawn from bounded sets, one action per function.     *)
(***************************************************************************)
PickArgs ==
    {ServiceEntry("Demo Device", "demo.local.", <<>>, v4, v6) :
        v4 \in SeqsUpTo(IPSet, MaxAddrs), v6 \in SeqsUpTo(IPSet, MaxAddrs)}

FirmwareArgs ==
    {ServiceEntry("Demo Device", "demo.local.", text, <<>>, <<>>) :
        text \in SeqsUpTo(TextSet, MaxText)}

FetchArgs ==
    {[url |-> u, srv |-> srv] :
        u \in {PowerURL("10.0.0.7"), PowerURL("[fe80::1]")}, srv \in ServerSet}

FnInit ==
    /\ listOnly = FALSE
    /\ mainPc = "exited"
    /\ err = "nil"
    /\ exitCode = 0
    /\ ctxDone = TRUE
    /\ browsing = FALSE
    /\ closed = FALSE
    /\ consumer = "none"
    /\ delivered = <<>>
    /\ h = <<>>
    /\ out = <<>>
    /\ fetches = <<>>
    /\ inflight = {}
    /\ fret = <<>>
    /\ \/ \E a \in PickArgs : fcall = [fn |-> "pickIPv4", arg |-> a]
       \/ \E a \in FirmwareArgs : fcall = [fn |-> "firmwareVersion", arg |-> a]
       \/ \E a \in FetchArgs : fcall = [fn |-> "fetchPower", arg |-> a]

CallPickIPv4 ==
    /\ fcall.fn = "pickIPv4"
    /\ fret = <<>>
    /\ fret' = <<pickIPv4(fcall.arg)>>
    /\ UNCHANGED <<sessionVars, fcall>>

CallFirmwareVersion ==
    /\ fcall.fn = "firmwareVersion"
    /\ fret = <<>>
    /\ fret' = <<firmwareVersion(fcall.arg)>>
    /\ UNCHANGED <<sessionVars, fcall>>

CallFetchPower ==
    /\ fcall.fn = "fetchPower"
    /\ fret = <<>>
    /\ fret' = <<fetchPower(fcall.arg.url, fcall.arg.srv)>>
    /\ UNCHANGED <<sessionVars, fcall>>

FnNext ==
    \/ CallPickIPv4
    \/ CallFirmwareVersion
    \/ CallFetchPower

SpecFn == FnInit /\ [][FnNext]_vars

(***************************************************************************)
(* Properties of the pure functions, checked under SpecFn.                 *)
(***************************************************************************)
Returned(fn) == fcall.fn = fn /\ fret /= <<>>

MinOf(S) == CHOOSE i \in S : \A j \in S : i <= j

\* ---- pickIPv4 ----
Is4Byte(ip) == Len(ip) = 4

\* a 4-byte address, or a 16-byte address of the form ::ffff:a.b.c.d
Is4ByteOrMapped(ip) ==
    \/ Len(ip) = 4
    \/ /\ Len(ip) = 16
       /\ SubSeq(ip, 1, 12) = <<0, 0, 0, 0, 0, 0, 0, 0, 0, 0, 255, 255>>

\* the address the selection rule names, Q deciding which addresses of
\* AddrIPv4 qualify
Selected(entry, Q(_)) ==
    LET M == {i \in 1..Len(entry.AddrIPv4) : Q(entry.AddrIPv4[i])}
    IN  IF M /= {} THEN IPString(entry.AddrIPv4[MinOf(M)])
        ELSE IF entry.AddrIPv6 /= <<>>
        THEN "[" \o IPString(entry.AddrIPv6[1]) \o "]"
        ELSE ""

\* C8 as stated: pickIPv4 returns the string form of the first address of
\* AddrIPv4 that is a genuine 4-byte address, else the bracketed first
\* address of AddrIPv6, else the empty string.
C8_Original == Returned("pickIPv4") => fret[1] = Selected(fcall.arg, Is4Byte)

\* C8 amended: pickIPv4 returns the string form of the first address of
\* AddrIPv4 whose 4-byte conversion succeeds (a 4-byte address or a 16-byte
\* IPv4-mapped one), else the bracketed first address of AddrIPv6 (index 0
\* only), else the empty string; an IPv6 address is never returned when an
\* address of AddrIPv4 qualifies.
C8_Amended ==
    Returned("pickIPv4") => fret[1] = Selected(fcall.arg, Is4ByteOrMapped)

\* an unconvertible address, then an IPv4-mapped one, with an IPv6 address
\* on offer: the mapped address is returned in dotted form
C8_Witness ==
    /\ Returned("pickIPv4")
    /\ fcall.arg.AddrIPv4 = <<IP6, IPMapped>>
    /\ fcall.arg.AddrIPv6 = <<IP6b, IP6>>
    /\ fret[1] = "10.0.0.7"

\* ---- firmwareVersion ----
HasEq(t) == \E k \in 1..Len(t) : Char(t, k) = "="
FirstEq(t) == MinOf({k \in 1..Len(t) : Char(t, k) = "="})
KeyOf(t) == SubSeq(t, 1, FirstEq(t) - 1)
ValueOf(t) == SubSeq(t, FirstEq(t) + 1, Len(t))
Recognised(t) == HasEq(t) /\ ToLower(KeyOf(t)) \in FirmwareKeys
Matches(text) == {i \in 1..Len(text) : Recognised(text[i])}

\* C9: firmwareVersion returns the value (everything after the first "=") of
\* the first attribute that contains "=" and whose lower-cased key is fv,
\* firmware, firmwareversion or version; attributes without "=" are skipped;
\* with no such attribute it returns ""; a later match never overrides.
C9_FirstMatch ==
    Returned("firmwareVersion") =>
        LET text == fcall.arg.Text
        IN  IF Matches(text) = {} THEN fret[1] = ""
            ELSE fret[1] = ValueOf(text[MinOf(Matches(text))])

\* two recognised attributes with different values: the first one's value,
\* "=" included, is the result
C9_Witness ==
    /\ Returned("firmwareVersion")
    /\ fcall.arg.Text = <<"Version=a=b", "fv=1.0">>
    /\ fret[1] = "a=b"

\* ---- fetchPower ----
IsTransportError(r) == r.info.nil /\ ~r.err.nil /\ r.err.from = "Get"
IsDecodeError(r) == r.info.nil /\ ~r.err.nil /\ r.err.from = "Decode"

\* r is the status error for srv: "unexpected status <status>: <snippet>",
\* the snippet being the first 512 bytes of the body at most, less the
\* white space around them
IsStatusError(r, srv) ==
    LET pre == "unexpected status " \o srv.Status \o ": "
        msg == r.err.msg
        snip == SubSeq(msg, Len(pre) + 1, Len(msg))
        head == SubSeq(srv.Body.raw, 1, Min(512, Len(srv.Body.raw)))
    IN  /\ r.info.nil
        /\ ~r.err.nil
        /\ r.err.from = "Errorf"
        /\ Len(msg) >= Len(pre)
        /\ SubSeq(msg, 1, Len(pre)) = pre
        /\ Len(snip) <= 512
        /\ snip /= "" => ~IsSpace(Char(snip, 1)) /\ ~IsSpace(Char(snip, Len(snip)))
        /\ \E a \in 0..(Len(head) - Len(snip)) :
              /\ SubSeq(head, a + 1, a + Len(snip)) = snip
              /\ \A k \in 1..a : IsSpace(Char(head, k))
              /\ \A k \in (a + Len(snip) + 1)..Len(head) : IsSpace(Char(head, k))

\* the value a JSON object gives the field tagged `name`: that of its last
\* member of that name (in any case) that is not null, or the zero value
FieldOf(json, name, zero) ==
    LET M == {k \in 1..Len(json.members) :
                 /\ ToLower(json.members[k].name) = ToLower(name)
                 /\ json.members[k].t /= "null"}
    IN  IF M = {} THEN zero ELSE json.members[CHOOSE k \in M : \A j \in M : j <= k].v

\* r is the populated reading of the JSON document, with no error
IsReading(r, json) ==
    /\ r.err.nil
    /\ ~r.info.nil
    /\ IF json.kind = "object"
       THEN /\ r.info.DeviceName = FieldOf(json, "deviceName", "")
            /\ r.info.CurrentWatts = FieldOf(json, "currentWatts", 0)
            /\ r.info.Timestamp = FieldOf(json, "timestamp", "")
       ELSE r.info = ZeroInfo

ValidJSON(json) == json.kind /= "syntax"

\* the document can be stored into a PowerInfo: null, or an object whose
\* members named after a PowerInfo field have that field's type or are null
Decodable(json) ==
    \/ json.kind = "null"
    \/ /\ json.kind = "object"
       /\ \A k \in 1..Len(json.members) :
             LET m == json.members[k]
             IN  \/ ToLower(m.name) \notin {"devicename", "currentwatts",
                                            "voltage", "amperage", "timestamp"}
                 \/ m.t = "null"
                 \/ m.t = (IF ToLower(m.name) \in {"devicename", "timestamp"}
                           THEN "string" ELSE "number")

\* C7 as stated: no response gives a transport error; a non-2xx status gives
\* the status error; a 2xx status with a body that is not valid JSON gives a
\* decode error and no reading; a 2xx status with valid JSON gives the
\* populated reading and no error; never a reading together with an error.
C7_Original ==
    Returned("fetchPower") =>
        LET srv == fcall.arg.srv
            r == fret[1]
        IN  /\ ~(~r.info.nil /\ ~r.err.nil)
            /\ IF ~srv.ok THEN IsTransportError(r)
               ELSE IF srv.StatusCode \notin 200..299 THEN IsStatusError(r, srv)
               ELSE IF ~ValidJSON(srv.Body.json) THEN IsDecodeError(r)
               ELSE IsReading(r, srv.Body.json)

\* C7 amended: no response gives a transport error; a status other than 200
\* gives the status error "unexpected status <status>: <snippet of at most
\* 512 bytes, trimmed>"; status 200 with a body that does not decode into a
\* PowerInfo gives a decode error and no reading; status 200 with a body that
\* does gives the populated reading and no error; never both.
C7_Amended ==
    Returned("fetchPower") =>
        LET srv == fcall.arg.srv
            r == fret[1]
        IN  /\ ~(~r.info.nil /\ ~r.err.nil)
            /\ IF ~srv.ok THEN IsTransportError(r)
               ELSE IF srv.StatusCode /= 200 THEN IsStatusError(r, srv)
               ELSE IF ~Decodable(srv.Body.json) THEN IsDecodeError(r)
               ELSE IsReading(r, srv.Body.json)

\* a 201 response is a status error, and its body of more than 512 bytes is
\* cut to 512 and trimmed
C7_Witness ==
    /\ Returned("fetchPower")
    /\ fcall.arg.srv.ok
    /\ fcall.arg.srv.StatusCode = 201
    /\ fcall.arg.srv.Body = LongBody
    /\ fret[1].info.nil
    /\ fret[1].err.msg = "unexpected status 201 Created: " \o Rep("x", 510)

(***************************************************************************)
(* Properties of a session, checked under Spec (C6 under FairSpec).        *)
(***************************************************************************)
HasPrefix(s, p) == Len(s) >= Len(p) /\ SubSeq(s, 1, Len(p)) = p

IsHeader(line) == HasPrefix(line, "\nDiscovered: ")
IsQueryLine(line) ==
    \/ HasPrefix(line, "  Querying: ")
    \/ HasPrefix(line, "  Power query failed: ")
    \/ HasPrefix(line, "  Current power: ")
    \/ HasPrefix(line, "  No IPv4 address available")

Calls == 1..Len(h)
InProgress == {i \in Calls : h[i].pc /= "done"}
\* the invocations that have printed their header
PastHeader == {i \in Calls : h[i].pc \notin {"begin", "header"}}
\* the invocations whose fetch failed
Failed == {i \in Calls : h[i].pc \in {"fetched", "done"} /\ ~h[i].res.err.nil}

\* C1: whatever the outcome of an entry (no address, transport, status or
\* decode error, success), the entries after it are still handled: the
\* consumer stops only on the closed stream, it is back at the range once an
\* invocation has returned, every delivered entry before the one being
\* handled has its header printed, and the headers on stdout are those of
\* the delivered entries in arrival order.
C1_Isolation ==
    /\ consumer = "ended" => closed
    /\ InProgress = {} /\ consumer /= "none" => consumer \in {"range", "ended"}
    /\ \A i \in Calls : i < Len(h) => i \in PastHeader
    /\ SelectSeq(out, IsHeader)
         = [i \in 1..Cardinality(PastHeader) |->
               "\nDiscovered: " \o delivered[i].Instance \o " ("
               \o TrimSuffix(delivered[i].HostName, ".") \o ")"]

\* three entries, the second one's fetch failed, all three headers printed
C1_Witness ==
    /\ Len(delivered) = 3
    /\ 2 \in Failed
    /\ h[3].pc = "done"
    /\ Len(SelectSeq(out, IsHeader)) = 3
    /\ delivered[1] /= delivered[3]

\* C2: at most one handleEntry invocation (its HTTP fetch included) is in
\* progress, and the invocation for entry k+1 does not exist before the one
\* for entry k has returned.
C2_OneAtATime ==
    /\ Cardinality(InProgress) <= 1
    /\ \A i \in Calls : i < Len(h) => h[i].pc = "done"
    /\ InProgress /= {} => consumer = "call"

\* a second entry is being fetched after the first was handled
C2_Witness ==
    /\ Len(h) = 2
    /\ h[1].pc = "done"
    /\ h[1].gets = 1
    /\ h[2].pc = "fetching"

\* C3 as stated: in list mode the address selector is not invoked and no
\* HTTP query is made, for every entry.
C3_Original ==
    listOnly => /\ fetches = <<>>
                /\ \A i \in Calls : ~h[i].picked /\ h[i].gets = 0

\* C3 amended: in list mode the address selector is invoked (line 58 runs
\* before the mode is tested) but its result is not used: no HTTP query is
\* made for any entry whatever its addresses, the list branch is terminal
\* and no query-mode line is printed.
C3_Amended ==
    listOnly =>
        /\ fetches = <<>>
        /\ \A i \in Calls :
              /\ h[i].gets = 0
              /\ h[i].pc \in {"begin", "header", "branch", "done"}
              /\ h[i].pc /= "begin" => h[i].picked
        /\ \A k \in 1..Len(out) : ~IsQueryLine(out[k])

\* list mode, an entry with a usable address handled to the end
C3_Witness ==
    /\ listOnly
    /\ \E i \in Calls :
          /\ h[i].pc = "done"
          /\ h[i].picked
          /\ h[i].addr = "10.0.0.7"
    /\ \E k \in 1..Len(out) : out[k] = "  Firmware: 1.0"

\* C4: the exit code is 1 exactly when NewResolver or Browse failed, and then
\* no entry was handled; otherwise the process exits with 0, at the deadline,
\* whatever per-entry failures occurred.
C4_ExitCode ==
    /\ mainPc = "exited" => exitCode \in {0, 1}
    /\ mainPc /= "exited" => exitCode = -1
    /\ exitCode = 1 <=> err /= "nil"
    /\ err /= "nil" => mainPc = "exited" /\ delivered = <<>> /\ h = <<>>
    /\ exitCode = 0 => ctxDone

\* exit code 0 after a failed query and an entry without address
C4_Witness ==
    /\ mainPc = "exited"
    /\ exitCode = 0
    /\ Failed /= {}
    /\ \E i \in Calls : h[i].pc = "done" /\ h[i].addr = ""

\* C5 as stated: a fetch in flight when the deadline elapses runs to its end
\* and the entry's result or failure line is printed.
C5_Original ==
    mainPc = "exited" =>
        \A i \in inflight :
            /\ h[i].pc = "done"
            /\ \E k \in 1..Len(out) :
                  \/ HasPrefix(out[k], "  Power query failed: ")
                  \/ HasPrefix(out[k], "  Current power: ")

\* C5 amended: the deadline itself does not cancel a fetch in flight (it
\* changes nothing of any invocation nor of stdout), and the fetch goes on
\* only while the process runs: once main has returned nothing is handled or
\* printed any more.
C5_Amended ==
    [][/\ (~ctxDone /\ ctxDone') => (h' = h /\ out' = out)
       /\ mainPc = "exited" => (h' = h /\ out' = out)]_vars

\* a fetch in flight at the deadline that completed, and printed, after it
C5_Witness ==
    /\ ctxDone
    /\ \E i \in inflight :
          /\ h[i].pc = "done"
          /\ HasPrefix(out[Len(out)], "  Current power: ")

\* C6: with NewResolver and Browse successful, main exits with 0 only once
\* the deadline has elapsed, and once it has elapsed main does exit, whether
\* or not the stream was closed or drained and whatever the consumer does.
C6_Terminates ==
    /\ [](mainPc = "exited" /\ exitCode = 0 => ctxDone)
    /\ (ctxDone ~> mainPc = "exited")

\* main has exited while the stream is open and a fetch is in flight
C6_Witness ==
    /\ mainPc = "exited"
    /\ exitCode = 0
    /\ ~closed
    /\ consumer = "call"
    /\ h[Len(h)].pc = "fetching"

\* the URLs requested for the invocations i..Len(h), in order
RECURSIVE QueriedFrom(_)
QueriedFrom(i) ==
    IF i > Len(h) THEN <<>>
    ELSE (IF h[i].gets >= 1
          THEN <<"http://" \o h[i].addr \o ":80/api/power">>
          ELSE <<>>) \o QueriedFrom(i + 1)

NoAddrLine == "  No IPv4 address available; skipping power query."

\* C10: in query mode an entry whose selected address (addr) is empty gets the notice and no
\* fetch, any other entry exactly one fetch, to
\* http://<address>:80/api/power; nothing is retried or re-queued, so there
\* are never more fetches than delivered entries.
C10_FetchCount ==
    /\ Len(fetches) <= Len(delivered)
    /\ fetches = QueriedFrom(1)
    /\ \A i \in Calls :
          /\ h[i].gets <= 1
          /\ (~listOnly /\ h[i].pc = "done") =>
                h[i].gets = (IF h[i].addr = "" THEN 0 ELSE 1)
    /\ ~listOnly =>
          Len(SelectSeq(out, LAMBDA l : l = NoAddrLine))
            = Cardinality({i \in Calls : h[i].pc = "done" /\ h[i].addr = ""})

\* query mode: a failed fetch and an entry without address, both handled
C10_Witness ==
    /\ ~listOnly
    /\ \E i \in Failed : h[i].pc = "done" /\ h[i].gets = 1
    /\ \E i \in Calls : h[i].pc = "done" /\ h[i].gets = 0
    /\ Len(fetches) < Len(delivered)
    /\ Len(delivered) = MaxEntries

====
